---- MODULE Spec2Model ----
(***************************************************************************)
(* X11KeyboardWindow: the scoped resource handle XRAIIWrapper<T> and the   *)
(* five progressive versions of main() that use it (or release by hand).   *)
(*                                                                         *)
(* A run is either a client exercising the operations of XRAIIWrapper on a *)
(* bounded set of handle objects (prog = "client"), or one execution of    *)
(* one version of main() against an X server whose answers are chosen      *)
(* nondeterministically.                                                   *)
(***************************************************************************)
EXTENDS Integers, Sequences, FiniteSets, TLC

\* ------------------------------------------------------------------ bounds
NumHandles == 2     \* handle objects the client program declares
MaxValue   == 1     \* resource values are 0 (the null sentinel) .. MaxValue
MaxEvents  == 2     \* events the X server delivers to the event loop
MaxOps     == 5     \* operations the client program performs on its handles
MaxOver    == 2     \* Xutf8LookupString reports lengths up to 128 + MaxOver
MaxOtherBits == 1   \* bits of a modifier state above the 13 named ones

\* ------------------------------------------------------- program constants
NoDeleter == 0      \* an empty std::function (constructed from nullptr)
NullValue == 0      \* nullptr / a zero Status / False
NonNull   == 1      \* a valid pointer, XID or atom / a non-zero Status / True

\* the handle objects main() declares, numbered in declaration order
hDisplay       == 1
hDisplayWindow == 2
hWindow        == 3
hInputMethod   == 4
hStyles        == 5
hPreedit       == 6
hImContext     == 7

ClientHandles == 1..NumHandles
MainHandles   == {hDisplay, hDisplayWindow, hWindow, hInputMethod, hStyles,
                  hPreedit, hImContext}
Handles       == ClientHandles \cup MainHandles
Values        == 0..MaxValue
Answers       == {NullValue, NonNull}   \* what a checked Xlib call can return

Versions == {"openclose", "manual", "raii", "im", "imstyles"}
RaiiVersions == {"raii", "im", "imstyles"}
ImVersions   == {"im", "imstyles"}

VARIABLES
    prog,       \* "client", or the version of main() that runs
    life,       \* life[h]: "unborn" | "live" | "dead"   (object lifetime)
    impl,       \* impl[h]: the std::optional<std::pair<T, std::function>>
    ctor,       \* ctor[h]: how h was constructed: the value and release action
                \* it received, and the handle it was moved from
    adopt,      \* adopt[h]: the last move-assignment into h: what h received,
                \* from which handle, and what h held before
    wasReset,   \* wasReset[h]: reset() has been called on h on its own
    movedFrom,  \* movedFrom[h]: h is in the moved-from state
    everMoved,  \* everMoved[h]: h was the source of a move at some time
    released,   \* the invocations of release actions, in order
    ops,        \* the client: operations performed so far
    xcalls,     \* the calls made to Xlib / libc, in order
    pc,         \* main(): the statement about to run
    scope,      \* main(): the handles constructed in the try block, in order
    raw,        \* main(): the plain locals (display, window, wmDeleteMessage)
    threw,      \* main(): the what() of the exception in flight, or "none"
    caught,     \* main(): how many times the catch handler ran
    diag,       \* main(): error descriptions written to std::cerr
    exitCode,   \* main(): the value returned, -1 while running
    events,     \* main(): the events XNextEvent has returned, in order
    shouldExit, \* main(): the loop's exit flag
    evlog,      \* main(): the events written to the log, in order
    got,        \* the client: what its last access to a handle returned
    lookup,     \* InputMethodText::obtainFrom: what Xutf8LookupString answers
                \* to its calls, and what the function returned
    modifiers   \* XModifiersStateToString: its argument and what it returned

hvarsNoOps == <<life, impl, ctor, adopt, wasReset, movedFrom, everMoved, released>>
hvars == <<life, impl, ctor, adopt, wasReset, movedFrom, everMoved, released, ops>>
mvars == <<pc, scope, raw, threw, caught, diag, exitCode, events, shouldExit, evlog, lookup,
          modifiers>>
vars  == <<prog, life, impl, ctor, adopt, wasReset, movedFrom, everMoved, released, ops, xcalls,
           pc, scope, raw, threw, caught, diag, exitCode, events, shouldExit, evlog, got, lookup,
           modifiers>>

\* ------------------------------------------------- XRAIIWrapper<T>::impl_
\* std::nullopt
Nullopt == [has |-> FALSE, first |-> NullValue, second |-> NoDeleter]

\* impl_{ std::in_place, std::move(resource), std::forward<CustomDeleter>(deleter) }
InPlaceValidating(v, d) ==
    IF v = NullValue THEN Nullopt ELSE [has |-> TRUE, first |-> v, second |-> d]
InPlace(v, d) == [has |-> TRUE, first |-> v, second |-> d]

\* impl_.value().first  (std::bad_optional_access when the optional is empty)
BadOptionalAccess == -2
getResourceNull(i) == NullValue
getResource(i) == IF i.has THEN i.first ELSE BadOptionalAccess

\* (R)impl_.value().first, for R = bool
CastR(v) == IF v = BadOptionalAccess THEN v ELSE IF v = NullValue THEN 0 ELSE 1

\* What a move can leave in the source optional.  The move members of
\* std::optional keep the source engaged and move the pair member by member:
\* the trivially copyable T keeps its value, and the std::function is moved
\* from, which leaves it "in a valid state with an unspecified value"
\* ([func.wrap.func.con]).  libstdc++ leaves it empty; libc++ copies a target
\* kept in its small buffer (every lambda of main() is one) and leaves the
\* source with its target.  Both outcomes are states of the source.
MovedFromStatesEmptied(i) == {Nullopt}
MovedFromStates(i) == IF i.has THEN {[i EXCEPT !.second = NoDeleter], i} ELSE {i}

\* What the destination of a move receives: the pair, move-constructed.
MoveTarget(i) == i

\* reset(): the deleter invocations it makes ...
resetCallsNever(i) == << >>
resetCallsNoCheck(i) == IF i.has THEN << [act |-> i.second, val |-> i.first] >> ELSE << >>
resetCalls(i) ==
    IF i.has /\ i.second # NoDeleter
    THEN << [act |-> i.second, val |-> i.first] >>
    ELSE << >>

\* ... and the state it leaves (impl_.reset()).
resetImplKeeps(i) == i
resetImpl(i) == IF i.has THEN Nullopt ELSE i

\* ------------------------------------------------------- release actions
\* The body of deleter d applied to value v: the external calls it makes.
\* The client's release actions are opaque; those of main() are its lambdas.
XCall(fn, args, ret) == [fn |-> fn, args |-> args, ret |-> ret]
NoRet == -1         \* the call returns nothing, or its result is ignored

DeleterBodyLeaks(d, v) == << >>
DeleterBodyUnchecked(d, v) ==
    IF prog = "client" THEN << >>
    ELSE IF d = hDisplay THEN << XCall("XCloseDisplay", <<v>>, NoRet) >>
    ELSE IF d = hWindow
         THEN << XCall("XDestroyWindow", <<getResource(impl[hDisplay]), v>>, NoRet) >>
    ELSE IF d = hInputMethod THEN << XCall("XCloseIM", <<v>>, NoRet) >>
    ELSE IF d = hStyles THEN << XCall("XFree(styles)", <<v>>, NoRet) >>
    ELSE IF d = hPreedit THEN << XCall("XFree(list)", <<v>>, NoRet) >>
    ELSE IF d = hImContext THEN << XCall("XDestroyIC", <<v>>, NoRet) >>
    ELSE << >>
DeleterBody(d, v) ==
    IF prog = "client" THEN << >>
    ELSE IF d = hDisplay
         THEN IF v # NullValue THEN << XCall("XCloseDisplay", <<v>>, NoRet) >> ELSE << >>
    ELSE IF d = hWindow
         THEN << XCall("XDestroyWindow", <<getResource(impl[hDisplay]), v>>, NoRet) >>
    ELSE IF d = hInputMethod
         THEN IF v # NullValue THEN << XCall("XCloseIM", <<v>>, NoRet) >> ELSE << >>
    ELSE IF d = hStyles
         THEN IF v # NullValue THEN << XCall("XFree(styles)", <<v>>, NoRet) >> ELSE << >>
    ELSE IF d = hPreedit
         THEN IF v # NullValue THEN << XCall("XFree(list)", <<v>>, NoRet) >> ELSE << >>
    ELSE IF d = hImContext
         THEN IF v # NullValue THEN << XCall("XDestroyIC", <<v>>, NoRet) >> ELSE << >>
    ELSE << >>

RECURSIVE BodiesOf(_)
BodiesOf(cs) == IF cs = << >> THEN << >>
                ELSE DeleterBody(Head(cs).act, Head(cs).val) \o BodiesOf(Tail(cs))

\* the entries reset() run by handle h through `via` adds to `released`;
\* `moved` records whether h was in the moved-from state when it ran
Entries(h, via, cs) == [k \in 1..Len(cs) |->
                          [act |-> cs[k].act, val |-> cs[k].val, by |-> h, via |-> via,
                           moved |-> movedFrom[h]]]

\* ------------------------------------------------------------- the client
\* The client declares its handles in the order of their numbers and performs
\* at most MaxOps operations.
Declarable(h) == life[h] = "unborn" /\ \A g \in ClientHandles : g < h => life[g] # "unborn"
ClientStep == prog = "client" /\ ops < MaxOps /\ ops' = ops + 1

\* XRAIIWrapper(T&& resource, CustomDeleter&& deleter): the release action
\* supplied at the construction of handle h is named h.
Construct(h, v) ==
    /\ ClientStep /\ Declarable(h)
    /\ life' = [life EXCEPT ![h] = "live"]
    /\ impl' = [impl EXCEPT ![h] = InPlace(v, h)]
    /\ ctor' = [ctor EXCEPT ![h] = [kind |-> "pair", val |-> v, act |-> h, from |-> h]]
    /\ UNCHANGED <<prog, adopt, wasReset, movedFrom, everMoved, released, xcalls, mvars, got>>

\* XRAIIWrapper(T&& resource): delegates with a nullptr deleter
ConstructNoDeleter(h, v) ==
    /\ ClientStep /\ Declarable(h)
    /\ life' = [life EXCEPT ![h] = "live"]
    /\ impl' = [impl EXCEPT ![h] = InPlace(v, NoDeleter)]
    /\ ctor' = [ctor EXCEPT ![h] = [kind |-> "single", val |-> v, act |-> NoDeleter,
                                    from |-> h]]
    /\ UNCHANGED <<prog, adopt, wasReset, movedFrom, everMoved, released, xcalls, mvars, got>>

\* XRAIIWrapper(XRAIIWrapper&&) = default
MoveConstruct(dst, src) ==
    /\ ClientStep /\ dst # src
    /\ Declarable(dst) /\ life[src] = "live"
    /\ life' = [life EXCEPT ![dst] = "live"]
    /\ \E m \in MovedFromStates(impl[src]) :
         impl' = [impl EXCEPT ![dst] = MoveTarget(impl[src]), ![src] = m]
    /\ ctor' = [ctor EXCEPT ![dst] = [kind |-> "move", val |-> impl[src].first,
                                      act |-> impl[src].second, from |-> src]]
    /\ movedFrom' = [movedFrom EXCEPT ![src] = TRUE]
    /\ everMoved' = [everMoved EXCEPT ![src] = TRUE]
    /\ UNCHANGED <<prog, adopt, wasReset, released, xcalls, mvars, got>>

\* operator=(XRAIIWrapper&& rhs), rhs another object: reset() ...
assignCalls(di) == resetCalls(di)

\* ... then impl_ = std::move(rhs.impl_): an engaged rhs is moved into the
\* (now empty) optional, an empty rhs leaves it empty
assignImplDrops(di, si) == resetImpl(di)
assignImpl(di, si) == IF si.has THEN MoveTarget(si) ELSE resetImpl(di)

\* operator=(XRAIIWrapper&& rhs)
MoveAssignUnguarded(dst, src) ==
    /\ ClientStep
    /\ life[dst] = "live" /\ life[src] = "live"
    /\ LET cs == assignCalls(impl[dst])
       IN  /\ released' = released \o Entries(dst, "assign", cs)
           /\ xcalls' = xcalls \o BodiesOf(cs)
           /\ IF src = dst
              THEN /\ impl' = [impl EXCEPT ![dst] = resetImpl(impl[dst])]
                   /\ UNCHANGED <<adopt, movedFrom, everMoved>>
              ELSE /\ \E m \in MovedFromStates(impl[src]) :
                        impl' = [impl EXCEPT ![dst] = assignImpl(impl[dst], impl[src]),
                                             ![src] = m]
                   /\ adopt' = [adopt EXCEPT ![dst] =
                                   [from |-> src, val |-> impl[src].first,
                                    act |-> impl[src].second,
                                    prevVal |-> impl[dst].first,
                                    prevAct |-> impl[dst].second]]
                   /\ movedFrom' = [movedFrom EXCEPT ![src] = TRUE, ![dst] = FALSE]
                   /\ everMoved' = [everMoved EXCEPT ![src] = TRUE]
    /\ UNCHANGED <<prog, life, ctor, wasReset, mvars, got>>
MoveAssign(dst, src) ==
    /\ ClientStep
    /\ life[dst] = "live" /\ life[src] = "live"
    /\ IF src = dst
       THEN UNCHANGED <<impl, adopt, movedFrom, everMoved, released, xcalls>>
       ELSE LET cs == assignCalls(impl[dst])
            IN  /\ released' = released \o Entries(dst, "assign", cs)
                /\ xcalls' = xcalls \o BodiesOf(cs)
                /\ \E m \in MovedFromStates(impl[src]) :
                     impl' = [impl EXCEPT ![dst] = assignImpl(impl[dst], impl[src]),
                                          ![src] = m]
                /\ adopt' = [adopt EXCEPT ![dst] =
                                [from |-> src, val |-> impl[src].first,
                                 act |-> impl[src].second,
                                 prevVal |-> impl[dst].first, prevAct |-> impl[dst].second]]
                /\ movedFrom' = [movedFrom EXCEPT ![src] = TRUE, ![dst] = FALSE]
                /\ everMoved' = [everMoved EXCEPT ![src] = TRUE]
    /\ UNCHANGED <<prog, life, ctor, wasReset, mvars, got>>

\* ~XRAIIWrapper()
Destroy(h) ==
    /\ ClientStep /\ life[h] = "live"
    /\ LET cs == resetCalls(impl[h])
       IN  /\ released' = released \o Entries(h, "dtor", cs)
           /\ xcalls' = xcalls \o BodiesOf(cs)
    /\ impl' = [impl EXCEPT ![h] = resetImpl(impl[h])]
    /\ life' = [life EXCEPT ![h] = "dead"]
    /\ UNCHANGED <<prog, ctor, adopt, wasReset, movedFrom, everMoved, mvars, got>>

\* reset(), called on its own (it is a private member: the class calls it from
\* the destructor and from operator= only)
Reset(h) ==
    /\ prog = "client" /\ life[h] = "live"
    /\ LET cs == resetCalls(impl[h])
       IN  /\ released' = released \o Entries(h, "reset", cs)
           /\ xcalls' = xcalls \o BodiesOf(cs)
    /\ impl' = [impl EXCEPT ![h] = resetImpl(impl[h])]
    /\ wasReset' = [wasReset EXCEPT ![h] = TRUE]
    /\ UNCHANGED <<prog, life, ctor, adopt, movedFrom, everMoved, ops, mvars, got>>

\* getResource(), operator const T&() and explicit operator R(): all three
\* read impl_.value().first; the last converts it to R
Accessors == {"getResource", "operator const T&", "operator R"}
NoAccess == [by |-> 0, how |-> "none", val |-> NoRet]

Access(h, how) ==
    /\ ClientStep /\ life[h] = "live"
    /\ got' = [by |-> h, how |-> how,
               val |-> IF how = "operator R" THEN CastR(getResource(impl[h]))
                       ELSE getResource(impl[h])]
    /\ UNCHANGED <<prog, hvarsNoOps, xcalls, mvars>>

\* ------------------------------------------------------------------ main()
\* The statements of each version of main(), in program order.
Steps(p) ==
    IF p = "openclose" THEN
        << "openDisplay", "closeDisplay" >>
    ELSE IF p = "manual" THEN
        << "openDisplay", "rootWindow", "createWindow", "setWMProtocols",
           "mapWindow", "loop", "temp_cleanup" >>
    ELSE IF p = "raii" THEN
        << "openDisplay", "rootWindow", "createWindow", "setWMProtocols",
           "selectInput", "mapWindow", "loop" >>
    ELSE IF p = "im" THEN
        << "setlocale", "supportsLocale", "setModifiers", "openDisplay",
           "rootWindow", "createWindow", "setWMProtocols", "selectInput",
           "openIM", "nestedList", "createIC", "mapWindow", "loop" >>
    ELSE IF p = "imstyles" THEN
        << "setlocale", "supportsLocale", "setModifiers", "openDisplay",
           "rootWindow", "createWindow", "setWMProtocols", "selectInput",
           "openIM", "styles", "nestedList", "createIC", "mapWindow", "loop" >>
    ELSE << "client" >>

FirstStep(p) == Steps(p)[1]

\* the statement after `step`; leaving the try block runs the destructors
After(step) ==
    LET k == CHOOSE j \in 1..Len(Steps(prog)) : Steps(prog)[j] = step
    IN  IF k < Len(Steps(prog)) THEN Steps(prog)[k + 1] ELSE "unwind"

\* throw std::runtime_error(msg): control leaves the try block
ThrowContinues(msg) == threw' = msg /\ pc' = After(pc)
Throw(msg) == threw' = msg /\ pc' = "unwind"
Goto(p) == threw' = threw /\ pc' = p

\* a handle object of main() is constructed
DeclareFront(h, v, d) ==
    /\ life' = [life EXCEPT ![h] = "live"]
    /\ impl' = [impl EXCEPT ![h] = InPlace(v, d)]
    /\ ctor' = [ctor EXCEPT ![h] = [kind |-> IF d = NoDeleter THEN "single" ELSE "pair",
                                    val |-> v, act |-> d, from |-> h]]
    /\ scope' = <<h>> \o scope
Declare(h, v, d) ==
    /\ life' = [life EXCEPT ![h] = "live"]
    /\ impl' = [impl EXCEPT ![h] = InPlace(v, d)]
    /\ ctor' = [ctor EXCEPT ![h] = [kind |-> IF d = NoDeleter THEN "single" ELSE "pair",
                                    val |-> v, act |-> d, from |-> h]]
    /\ scope' = Append(scope, h)

\* the Display*, Window, XIM, ... a statement passes to Xlib
Display == IF prog \in RaiiVersions THEN getResource(impl[hDisplay]) ELSE raw.display
Window  == IF prog \in RaiiVersions THEN getResource(impl[hWindow]) ELSE raw.window

clientFrame == <<prog, adopt, wasReset, movedFrom, everMoved, ops, got>>
noDeclare   == <<life, impl, ctor, scope>>
loopVars    == <<events, shouldExit, evlog, lookup, modifiers>>
outcome     == <<caught, diag, exitCode>>

\* a call whose failure sentinel (NullValue) is checked, no handle involved
CheckedCall(step, fn, args, msg) ==
    /\ pc = step
    /\ \E r \in Answers :
         /\ xcalls' = Append(xcalls, XCall(fn, args, r))
         /\ IF r = NullValue THEN Throw(msg) ELSE Goto(After(step))
    /\ UNCHANGED <<clientFrame, noDeclare, released, raw, loopVars, outcome>>

\* a call whose result is wrapped in handle h before its sentinel is checked
Acquire(step, h, fn, args, msg) ==
    /\ pc = step
    /\ \E r \in Answers :
         /\ xcalls' = Append(xcalls, XCall(fn, args, r))
         /\ Declare(h, r, h)
         /\ IF getResource(InPlace(r, h)) = NullValue THEN Throw(msg) ELSE Goto(After(step))
    /\ UNCHANGED <<clientFrame, released, raw, loopVars, outcome>>

setlocale ==
    /\ prog \in ImVersions
    /\ CheckedCall("setlocale", "setlocale", << >>, "std::setlocale failed")

XSupportsLocale ==
    /\ prog \in ImVersions
    /\ CheckedCall("supportsLocale", "XSupportsLocale", << >>,
                   "X11 does not support the current locale")

XSetLocaleModifiers ==
    /\ prog \in ImVersions
    /\ CheckedCall("setModifiers", "XSetLocaleModifiers", << >>, "XSetLocaleModifiers failed")

XOpenDisplay ==
    /\ prog \in RaiiVersions
    /\ Acquire("openDisplay", hDisplay, "XOpenDisplay", << >>, "XOpenDisplay failed")

\* the versions without handles keep the Display* in a plain local
XOpenDisplayRaw ==
    /\ prog \in {"openclose", "manual"} /\ pc = "openDisplay"
    /\ \E d \in Answers :
         /\ xcalls' = Append(xcalls, XCall("XOpenDisplay", << >>, d))
         /\ raw' = [raw EXCEPT !.display = d]
         /\ IF d = NullValue THEN Throw("XOpenDisplay failed") ELSE Goto(After("openDisplay"))
    /\ UNCHANGED <<clientFrame, noDeclare, released, loopVars, outcome>>

\* open/close only version: XCloseDisplay(display)
XCloseDisplayRaw ==
    /\ prog = "openclose" /\ pc = "closeDisplay"
    /\ xcalls' = Append(xcalls, XCall("XCloseDisplay", <<raw.display>>, NoRet))
    /\ Goto(After("closeDisplay"))
    /\ UNCHANGED <<clientFrame, noDeclare, released, raw, loopVars, outcome>>

\* displayWindow = DefaultRootWindow(display): a handle without release action
\* (DefaultScreen, BlackPixel and WhitePixel only read the Display structure)
DefaultRootWindow ==
    /\ pc = "rootWindow"
    /\ \E w \in {NonNull} :
         /\ xcalls' = Append(xcalls, XCall("DefaultRootWindow", <<Display>>, w))
         /\ IF prog \in RaiiVersions
            THEN Declare(hDisplayWindow, w, NoDeleter)
            ELSE UNCHANGED noDeclare
    /\ Goto(After("rootWindow"))
    /\ UNCHANGED <<clientFrame, released, raw, loopVars, outcome>>

\* XCreateSimpleWindow: it returns the XID Xlib allocated, which is not checked
XCreateSimpleWindow ==
    /\ pc = "createWindow"
    /\ \E w \in {NonNull} :
         /\ xcalls' = Append(xcalls, XCall("XCreateSimpleWindow", <<Display>>, w))
         /\ IF prog \in RaiiVersions
            THEN Declare(hWindow, w, hWindow) /\ raw' = raw
            ELSE raw' = [raw EXCEPT !.window = w] /\ UNCHANGED noDeclare
    /\ Goto(After("createWindow"))
    /\ UNCHANGED <<clientFrame, released, loopVars, outcome>>

\* XInternAtom, then XSetWMProtocols: a zero status throws
XSetWMProtocols ==
    /\ prog \in RaiiVersions /\ pc = "setWMProtocols"
    /\ \E a \in {NonNull}, status \in Answers :
         /\ xcalls' = xcalls \o << XCall("XInternAtom", <<Display>>, a),
                                   XCall("XSetWMProtocols", <<Display, Window>>, status) >>
         /\ raw' = [raw EXCEPT !.wmDeleteMessage = a]
         /\ IF status = NullValue
            THEN Throw("XSetWMProtocols failed")
            ELSE Goto(After("setWMProtocols"))
    /\ UNCHANGED <<clientFrame, noDeclare, released, loopVars, outcome>>

\* manual-cleanup version: a zero status is reported and control jumps to
\* temp_cleanup ("temporary solution until RAII wrappers are implemented")
XSetWMProtocolsManual ==
    /\ prog = "manual" /\ pc = "setWMProtocols"
    /\ \E a \in {NonNull}, status \in Answers :
         /\ xcalls' = xcalls \o << XCall("XInternAtom", <<Display>>, a),
                                   XCall("XSetWMProtocols", <<Display, Window>>, status) >>
         /\ raw' = [raw EXCEPT !.wmDeleteMessage = a]
         /\ IF status = NullValue
            THEN diag' = Append(diag, "XSetWMProtocols failed") /\ Goto("temp_cleanup")
            ELSE diag' = diag /\ Goto(After("setWMProtocols"))
    /\ UNCHANGED <<clientFrame, noDeclare, released, loopVars, caught, exitCode>>

XSelectInput ==
    /\ pc = "selectInput"
    /\ xcalls' = Append(xcalls, XCall("XSelectInput", <<Display, Window>>, NoRet))
    /\ Goto(After("selectInput"))
    /\ UNCHANGED <<clientFrame, noDeclare, released, raw, loopVars, outcome>>

XOpenIM ==
    /\ prog \in ImVersions
    /\ Acquire("openIM", hInputMethod, "XOpenIM", <<Display>>, "XOpenIM failed")

\* obtainSupportedInputStyles(inputMethod): throws before any handle exists.
\* XGetIMValues returns the name of the argument it could not obtain (and
\* then leaves styles a nullptr), or NULL.
obtainSupportedInputStylesUnchecked ==
    /\ pc = "styles"
    /\ \E failedArg \in Answers, styles \in Answers :
         /\ failedArg # NullValue => styles = NullValue
         /\ xcalls' = Append(xcalls, XCall("XGetIMValues",
                                           <<getResource(impl[hInputMethod])>>, failedArg))
         /\ Declare(hStyles, styles, hStyles) /\ Goto(After("styles"))
    /\ UNCHANGED <<clientFrame, released, raw, loopVars, outcome>>
obtainSupportedInputStyles ==
    /\ pc = "styles"
    /\ \E failedArg \in Answers, styles \in Answers :
         /\ failedArg # NullValue => styles = NullValue
         /\ xcalls' = Append(xcalls, XCall("XGetIMValues",
                                           <<getResource(impl[hInputMethod])>>, failedArg))
         /\ IF failedArg # NullValue
            THEN Throw("XGetIMValues failed") /\ UNCHANGED noDeclare
            ELSE IF styles = NullValue
            THEN Throw("XGetIMValues didn't return values for XNQueryInputStyle")
                 /\ UNCHANGED noDeclare
            ELSE Declare(hStyles, styles, hStyles) /\ Goto(After("styles"))
    /\ UNCHANGED <<clientFrame, released, raw, loopVars, outcome>>

XVaCreateNestedList ==
    /\ prog \in ImVersions
    /\ Acquire("nestedList", hPreedit, "XVaCreateNestedList", << >>,
               "XVaCreateNestedList failed")

XCreateIC ==
    /\ prog \in ImVersions
    /\ Acquire("createIC", hImContext, "XCreateIC",
               <<getResource(impl[hInputMethod]), getResource(impl[hPreedit]),
                 getResource(impl[hWindow])>>,
               "XCreateIC failed")

\* XSetICFocus(imContext) in the input-method versions, then XMapWindow
XMapWindow ==
    /\ pc = "mapWindow"
    /\ xcalls' = xcalls
           \o (IF prog \in ImVersions
               THEN << XCall("XSetICFocus", <<getResource(impl[hImContext])>>, NoRet) >>
               ELSE << >>)
           \o << XCall("XMapWindow", <<Display, Window>>, NoRet) >>
    /\ Goto(After("mapWindow"))
    /\ UNCHANGED <<clientFrame, noDeclare, released, raw, loopVars, outcome>>

\* ---------------------------------------------------------- the event loop
EventTypes == {"ClientMessage", "KeymapNotify", "KeyPress", "KeyRelease",
               "ButtonPress", "ButtonRelease", "MappingNotify"}
Statuses   == {"XBufferOverflow", "XLookupNone", "XLookupChars", "XLookupKeySym",
               "XLookupBoth", "unknown"}
Returning  == {"XLookupNone", "XLookupChars", "XLookupKeySym", "XLookupBoth"}

\* event.xclient.message_type and event.xclient.format of a ClientMessage: the
\* protocol message of the window manager, or any other client's message
MessageTypes == {"WM_PROTOCOLS", "other"}
Formats == {32, 8}

\* What XNextEvent, XFilterEvent and Xutf8LookupString can answer: data0 is
\* event.xclient.data.l[0], messageType and format are the other members of
\* event.xclient (a ClientMessage only), filtered is the answer of
\* XFilterEvent (asked in the input-method versions only), st1 and st2 are
\* the statuses of the first and second lookup (a KeyPress only).
Events ==
    [type : {"ClientMessage"}, data0 : Answers, messageType : MessageTypes,
     format : Formats, filtered : BOOLEAN,
     st1 : {"XLookupNone"}, st2 : {"XLookupNone"}]
    \cup
    [type : EventTypes \ {"ClientMessage", "KeyPress"}, data0 : {NullValue},
     messageType : {"none"}, format : {0},
     filtered : BOOLEAN, st1 : {"XLookupNone"}, st2 : {"XLookupNone"}]
    \cup
    [type : {"KeyPress"}, data0 : {NullValue}, messageType : {"none"}, format : {0},
     filtered : {TRUE}, st1 : {"XLookupNone"}, st2 : {"XLookupNone"}]
    \cup
    [type : {"KeyPress"}, data0 : {NullValue}, messageType : {"none"}, format : {0},
     filtered : {FALSE}, st1 : Statuses \ {"XBufferOverflow"}, st2 : {"XLookupNone"}]
    \cup
    [type : {"KeyPress"}, data0 : {NullValue}, messageType : {"none"}, format : {0},
     filtered : {FALSE}, st1 : {"XBufferOverflow"}, st2 : Statuses]

\* XFilterEvent is called by the input-method versions only
Filters == prog \in ImVersions
NeverFiltered(ev) == FALSE
EventWasFiltered(ev) == Filters /\ ev.filtered

\* InputMethodText::obtainFrom: the lookups it makes and the status it ends on
LookupStatuses(ev) == IF ev.st1 = "XBufferOverflow" THEN <<ev.st1, ev.st2>> ELSE <<ev.st1>>
FinalStatus(ev) == LookupStatuses(ev)[Len(LookupStatuses(ev))]
obtainFromThrows(ev) == FinalStatus(ev) \notin Returning

\* the switch reaches InputMethodText::obtainFrom
LooksUp(ev) == prog \in ImVersions /\ ~EventWasFiltered(ev) /\ ev.type = "KeyPress"

\* case ClientMessage: data.l[0] == wmDeleteMessage
IsCloseProtocolsOnly(ev) ==
    /\ ~EventWasFiltered(ev)
    /\ ev.type = "ClientMessage"
    /\ ev.messageType = "WM_PROTOCOLS" /\ ev.format = 32
    /\ ev.data0 = raw.wmDeleteMessage
IsCloseAnyClientMessage(ev) == ~EventWasFiltered(ev) /\ ev.type = "ClientMessage"
IsClose(ev) ==
    /\ ~EventWasFiltered(ev)
    /\ ev.type = "ClientMessage"
    /\ ev.data0 = raw.wmDeleteMessage

\* the calls one iteration makes
IterationCalls(ev) ==
    << XCall("XNextEvent", <<Display>>, NoRet) >>
    \o (IF Filters
        THEN << XCall("XFilterEvent", << >>, IF ev.filtered THEN NonNull ELSE NullValue) >>
        ELSE << >>)
    \o (IF LooksUp(ev)
        THEN [k \in 1..Len(LookupStatuses(ev)) |->
                XCall("Xutf8LookupString", <<getResource(impl[hImContext])>>, NoRet)]
        ELSE << >>)

\* What one iteration writes to the log about the event it fetched.  The
\* final version calls logX11Event(event, eventWasFiltered) on every event
\* before it looks at the filter; the versions before it log in the cases of
\* the switch, which a filtered event and an event of another type never
\* reach; the manual-cleanup version logs nothing.
SwitchCases == {"ClientMessage", "KeymapNotify", "KeyPress", "KeyRelease",
                "ButtonPress", "ButtonRelease"}
EventLog(ev) ==
    IF prog = "imstyles"
    THEN << [type |-> ev.type, filtered |-> ev.filtered, at |-> "logX11Event"] >>
    ELSE IF prog \in {"raii", "im"} /\ ~EventWasFiltered(ev) /\ ev.type \in SwitchCases
    THEN << [type |-> ev.type, filtered |-> FALSE, at |-> "switch"] >>
    ELSE << >>

\* one iteration of do { ... } while (!shouldExit)
EventLoop ==
    /\ pc = "loop" /\ Len(events) < MaxEvents
    /\ \E ev \in Events :
         /\ ~Filters => ~ev.filtered /\ ev.st1 = "XLookupNone"
         /\ events' = Append(events, ev)
         /\ evlog' = evlog \o EventLog(ev)
         /\ lookup' = lookup /\ modifiers' = modifiers
         /\ xcalls' = xcalls \o IterationCalls(ev)
         /\ IF LooksUp(ev) /\ obtainFromThrows(ev)
            THEN /\ Throw("Xutf8LookupString: unknown status")
                 /\ shouldExit' = shouldExit
            ELSE /\ shouldExit' = (shouldExit \/ IsClose(ev))
                 /\ Goto(IF shouldExit' THEN After("loop") ELSE "loop")
    /\ UNCHANGED <<clientFrame, noDeclare, released, raw, outcome>>

\* manual-cleanup version: temp_cleanup: XDestroyWindow, XCloseDisplay
temp_cleanupCloseFirst ==
    /\ prog = "manual" /\ pc = "temp_cleanup"
    /\ xcalls' = xcalls \o << XCall("XCloseDisplay", <<raw.display>>, NoRet),
                              XCall("XDestroyWindow", <<raw.display, raw.window>>, NoRet) >>
    /\ Goto(After("temp_cleanup"))
    /\ UNCHANGED <<clientFrame, noDeclare, released, raw, loopVars, outcome>>
temp_cleanup ==
    /\ prog = "manual" /\ pc = "temp_cleanup"
    /\ xcalls' = xcalls \o << XCall("XDestroyWindow", <<raw.display, raw.window>>, NoRet),
                              XCall("XCloseDisplay", <<raw.display>>, NoRet) >>
    /\ Goto(After("temp_cleanup"))
    /\ UNCHANGED <<clientFrame, noDeclare, released, raw, loopVars, outcome>>

\* ------------------------------------------------- leaving the try block
\* The handles of the block are destroyed in the reverse of their
\* construction, on normal completion and during stack unwinding alike.
FirstConstructed(sc) == sc[1]
LastConstructed(sc) == sc[Len(sc)]
WithoutNothing(sc, h) == sc
Without(sc, h) == SelectSeq(sc, LAMBDA x : x # h)

ScopeExit ==
    /\ pc = "unwind" /\ scope # << >>
    /\ LET h  == LastConstructed(scope)
           cs == resetCalls(impl[h])
       IN  /\ released' = released \o Entries(h, "dtor", cs)
           /\ xcalls' = xcalls \o BodiesOf(cs)
           /\ impl' = [impl EXCEPT ![h] = resetImpl(impl[h])]
           /\ life' = [life EXCEPT ![h] = "dead"]
           /\ scope' = Without(scope, h)
    /\ UNCHANGED <<clientFrame, ctor, pc, raw, threw, loopVars, outcome>>

\* catch (const std::exception& err): report, return 1
CatchReturns0(msg) == /\ diag' = Append(diag, msg) /\ caught' = caught + 1 /\ exitCode' = 0
CatchBody(msg) ==
    /\ diag' = Append(diag, msg)
    /\ caught' = caught + 1
    /\ exitCode' = 1

Catch ==
    /\ pc = "unwind" /\ scope = << >> /\ threw # "none"
    /\ CatchBody(threw)
    /\ pc' = "done"
    /\ UNCHANGED <<clientFrame, noDeclare, released, xcalls, raw, threw, loopVars>>

\* return 0
Return0 ==
    /\ pc = "unwind" /\ scope = << >> /\ threw = "none"
    /\ exitCode' = 0
    /\ pc' = "done"
    /\ UNCHANGED <<clientFrame, noDeclare, released, xcalls, raw, threw, loopVars,
                   caught, diag>>

\* ------------------------------------------------------------------ runs
NoCtor  == [kind |-> "none", val |-> NullValue, act |-> NoDeleter, from |-> 0]
NoAdopt == [from |-> 0, val |-> NullValue, act |-> NoDeleter,
            prevVal |-> NullValue, prevAct |-> NoDeleter]

\* ---------------------------------------- InputMethodText::obtainFrom
\* composedText.resize(129, 0) and the size composedText.size() - 1 passed to
\* the first Xutf8LookupString: 128 bytes
BufferCap == 128
NoKeySym == 0       \* std::nullopt in place of the key symbol
NoText == -1        \* std::nullopt in place of the text
KeySyms == 1..(MaxValue + 1)
Lens == {0, 1, BufferCap - 1, BufferCap} \cup {BufferCap + k : k \in 1..MaxOver}

\* What Xutf8LookupString can answer when it is given a buffer of cap bytes:
\* XBufferOverflow with the size it needs, which is more than cap;
\* XLookupNone and XLookupKeySym with length zero; XLookupChars and
\* XLookupBoth with the length of the text it stored, which fits; keySym is
\* what it stored in *keysym_return (NoKeySym: it stored nothing).  A status
\* outside the five documented ones comes with any length.
LookupAnswers(cap) ==
    [status : {"XBufferOverflow"}, len : {n \in Lens : n > cap}, keySym : {NoKeySym}]
    \cup [status : {"XLookupNone"}, len : {0}, keySym : {NoKeySym}]
    \cup [status : {"XLookupChars"}, len : {n \in Lens : 1 <= n /\ n <= cap},
          keySym : {NoKeySym}]
    \cup [status : {"XLookupKeySym"}, len : {0}, keySym : KeySyms]
    \cup [status : {"XLookupBoth"}, len : {n \in Lens : 1 <= n /\ n <= cap},
          keySym : KeySyms]
    \cup [status : {"unknown"}, len : Lens, keySym : {NoKeySym}]
NoAnswer == [status |-> "none", len |-> 0, keySym |-> NoKeySym]

\* std::string::resize(n, 0) on a string modelled by its size
resize(size, n) == n

\* the cases of switch (status)
HasKeySymOnlyBoth(status) == status = "XLookupBoth"
HasKeySym(status) == status \in {"XLookupKeySym", "XLookupBoth"}
HasText(status)   == status \in {"XLookupChars", "XLookupBoth"}

\* the buffer size the first call is given, and the second after the first
\* answered a1
FirstCap == resize(0, BufferCap + 1) - 1
SecondCap(a1) == resize(BufferCap + 1, a1.len + 1) - 1

\* obtainFrom, given the answers a1 and a2 of the first and the second call:
\* calls are the calls it made, each with the buffer size it passed and the
\* answer it got; text is the size of the string it returned.
obtainFromOneCall(a1, a2) ==
    [calls |-> << [cap |-> BufferCap, ans |-> a1] >>,
     threw |-> a1.status \notin Returning,
     keySym |-> IF a1.status \in Returning /\ HasKeySym(a1.status) THEN a1.keySym
                ELSE NoKeySym,
     text |-> IF a1.status \in Returning /\ HasText(a1.status) THEN a1.len ELSE NoText]
obtainFrom(a1, a2) ==
    LET size0  == resize(0, BufferCap + 1)
        second == a1.status = "XBufferOverflow"
        size1  == IF second THEN resize(size0, a1.len + 1) ELSE size0
        calls  == << [cap |-> size0 - 1, ans |-> a1] >>
                  \o (IF second THEN << [cap |-> size1 - 1, ans |-> a2] >> ELSE << >>)
        status == IF second THEN a2.status ELSE a1.status
        composedTextLengthBytes == IF second THEN a2.len ELSE a1.len
        keySym == IF second /\ HasKeySym(a2.status) THEN a2.keySym ELSE a1.keySym
        size2  == resize(size1, composedTextLengthBytes)
    IN  IF status \in Returning
        THEN [calls |-> calls, threw |-> FALSE,
              keySym |-> IF HasKeySym(status) THEN keySym ELSE NoKeySym,
              text |-> IF HasText(status) THEN size2 ELSE NoText]
        ELSE [calls |-> calls, threw |-> TRUE, keySym |-> NoKeySym, text |-> NoText]

NoResult == [calls |-> << >>, threw |-> FALSE, keySym |-> NoKeySym, text |-> NoText]
NoLookup == [a1 |-> NoAnswer, a2 |-> NoAnswer, called |-> FALSE, out |-> NoResult]

\* a call of InputMethodText::obtainFrom(imContext, kpEvent)
ObtainFrom ==
    /\ ~lookup.called
    /\ lookup' = [lookup EXCEPT !.called = TRUE, !.out = obtainFrom(lookup.a1, lookup.a2)]
    /\ UNCHANGED <<prog, hvars, xcalls, pc, scope, raw, threw, caught, diag, exitCode,
                   events, shouldExit, evlog, got, modifiers>>

\* ------------------------------------------------ XModifiersStateToString
\* the masks in the order the function tests them, with the bit each has in
\* <X11/X.h>
Masks ==
    << [name |-> "Button1", mask |-> 256],  [name |-> "Button2", mask |-> 512],
       [name |-> "Button3", mask |-> 1024], [name |-> "Button4", mask |-> 2048],
       [name |-> "Button5", mask |-> 4096], [name |-> "Shift", mask |-> 1],
       [name |-> "Lock", mask |-> 2],       [name |-> "Control", mask |-> 4],
       [name |-> "Mod1", mask |-> 8],       [name |-> "Mod2", mask |-> 16],
       [name |-> "Mod3", mask |-> 32],      [name |-> "Mod4", mask |-> 64],
       [name |-> "Mod5", mask |-> 128] >>

\* the argument: an unsigned int, of which the low 13 + MaxOtherBits bits vary
RECURSIVE Pow2(_)
Pow2(n) == IF n = 0 THEN 1 ELSE 2 * Pow2(n - 1)
ModifierStates == 0..(Pow2(Len(Masks) + MaxOtherBits) - 1)

\* a & b
RECURSIVE BitAnd(_, _)
BitAnd(a, b) ==
    IF a = 0 \/ b = 0 THEN 0
    ELSE (a % 2) * (b % 2) + 2 * BitAnd(a \div 2, b \div 2)

\* result += result.length() < 2 ? "Name" : ", Name"
PlusNameAlwaysSeparated(result, name) == result \o ", " \o name
PlusName(result, name) == result \o (IF Len(result) < 2 THEN name ELSE ", " \o name)

\* the if statements from the k-th on
RECURSIVE TestMasksFrom(_, _, _)
TestMasksFrom(k, state, result) ==
    IF k > Len(Masks) THEN result
    ELSE TestMasksFrom(k + 1, state,
                       IF BitAnd(state, Masks[k].mask) = Masks[k].mask
                       THEN PlusName(result, Masks[k].name)
                       ELSE result)

XModifiersStateToString(state) == TestMasksFrom(1, state, "[") \o "]"

NoModifiers == [state |-> 0, called |-> FALSE, out |-> ""]

\* a call of XModifiersStateToString(modifiers.state)
ModifiersToString ==
    /\ ~modifiers.called
    /\ modifiers' = [modifiers EXCEPT !.called = TRUE,
                                      !.out = XModifiersStateToString(modifiers.state)]
    /\ UNCHANGED <<prog, hvars, xcalls, pc, scope, raw, threw, caught, diag, exitCode,
                   events, shouldExit, evlog, got, lookup>>

\* main() before its first statement; no handle exists yet
MainInit ==
    /\ xcalls = << >>
    /\ scope = << >>
    /\ raw = [display |-> NullValue, window |-> NullValue, wmDeleteMessage |-> NullValue]
    /\ threw = "none"
    /\ caught = 0
    /\ diag = << >>
    /\ exitCode = -1
    /\ events = << >>
    /\ shouldExit = FALSE
    /\ evlog = << >>
    /\ lookup = NoLookup
    /\ modifiers = NoModifiers

Init ==
    /\ prog \in {"client"} \cup Versions
    /\ life = [h \in Handles |-> "unborn"]
    /\ impl = [h \in Handles |-> Nullopt]
    /\ ctor = [h \in Handles |-> NoCtor]
    /\ adopt = [h \in Handles |-> NoAdopt]
    /\ wasReset = [h \in Handles |-> FALSE]
    /\ movedFrom = [h \in Handles |-> FALSE]
    /\ everMoved = [h \in Handles |-> FALSE]
    /\ released = << >>
    /\ ops = 0
    /\ got = NoAccess
    /\ pc = FirstStep(prog)
    /\ MainInit

Next ==
    \/ \E h \in ClientHandles, v \in Values : Construct(h, v)
    \/ \E h \in ClientHandles, v \in Values : ConstructNoDeleter(h, v)
    \/ \E d \in ClientHandles, s \in ClientHandles : MoveConstruct(d, s)
    \/ \E d \in ClientHandles, s \in ClientHandles : MoveAssign(d, s)
    \/ \E h \in ClientHandles : Destroy(h)
    \/ setlocale
    \/ XSupportsLocale
    \/ XSetLocaleModifiers
    \/ XOpenDisplay
    \/ XOpenDisplayRaw
    \/ XCloseDisplayRaw
    \/ DefaultRootWindow
    \/ XCreateSimpleWindow
    \/ XSetWMProtocols
    \/ XSetWMProtocolsManual
    \/ XSelectInput
    \/ XOpenIM
    \/ obtainSupportedInputStyles
    \/ XVaCreateNestedList
    \/ XCreateIC
    \/ XMapWindow
    \/ EventLoop
    \/ temp_cleanup
    \/ ScopeExit
    \/ Catch
    \/ Return0

Spec == Init /\ [][Next]_vars

\* One execution of main().  The program is sequential: every statement that
\* does not wait runs once control reaches it.  XNextEvent is the only call
\* that waits, for as long as the server delivers nothing.
InitMain == Init /\ prog \in Versions

MainStep ==
    \/ setlocale
    \/ XSupportsLocale
    \/ XSetLocaleModifiers
    \/ XOpenDisplay
    \/ XOpenDisplayRaw
    \/ XCloseDisplayRaw
    \/ DefaultRootWindow
    \/ XCreateSimpleWindow
    \/ XSetWMProtocols
    \/ XSetWMProtocolsManual
    \/ XSelectInput
    \/ XOpenIM
    \/ obtainSupportedInputStyles
    \/ XVaCreateNestedList
    \/ XCreateIC
    \/ XMapWindow
    \/ temp_cleanup
    \/ ScopeExit
    \/ Catch
    \/ Return0

NextMain == MainStep \/ EventLoop

SpecLive == InitMain /\ [][NextMain]_vars /\ WF_vars(MainStep)

\* reset() as a function of the handle's state: every client handle starts
\* constructed, around any value, with or without a release action, and the
\* client calls reset() and the destructor on them.
CtorOf(i, h) == [kind |-> IF i.second = NoDeleter THEN "single" ELSE "pair",
                 val |-> i.first, act |-> i.second, from |-> h]

InitReset ==
    /\ prog = "client"
    /\ life = [h \in Handles |-> IF h \in ClientHandles THEN "live" ELSE "unborn"]
    /\ \E vs \in [ClientHandles -> Values], ds \in [ClientHandles -> BOOLEAN] :
         impl = [h \in Handles |->
                   IF h \in ClientHandles
                   THEN InPlace(vs[h], IF ds[h] THEN h ELSE NoDeleter)
                   ELSE Nullopt]
    /\ ctor = [h \in Handles |-> IF h \in ClientHandles THEN CtorOf(impl[h], h) ELSE NoCtor]
    /\ adopt = [h \in Handles |-> NoAdopt]
    /\ wasReset = [h \in Handles |-> FALSE]
    /\ movedFrom = [h \in Handles |-> FALSE]
    /\ everMoved = [h \in Handles |-> FALSE]
    /\ released = << >>
    /\ ops = 0
    /\ got = NoAccess
    /\ pc = FirstStep(prog)
    /\ MainInit

NextReset ==
    \/ \E h \in ClientHandles : Reset(h)
    \/ \E h \in ClientHandles : Destroy(h)

SpecReset == InitReset /\ [][NextReset]_vars

\* The accessors as functions of the handle's state: the client has spent
\* one operation on the construction of each of its handles, as above, and
\* spends the others reading them, move-assigning among them and destroying
\* them.
InitAccess ==
    /\ prog = "client"
    /\ life = [h \in Handles |-> IF h \in ClientHandles THEN "live" ELSE "unborn"]
    /\ \E vs \in [ClientHandles -> Values], ds \in [ClientHandles -> BOOLEAN] :
         impl = [h \in Handles |->
                   IF h \in ClientHandles
                   THEN InPlace(vs[h], IF ds[h] THEN h ELSE NoDeleter)
                   ELSE Nullopt]
    /\ ctor = [h \in Handles |-> IF h \in ClientHandles THEN CtorOf(impl[h], h) ELSE NoCtor]
    /\ adopt = [h \in Handles |-> NoAdopt]
    /\ wasReset = [h \in Handles |-> FALSE]
    /\ movedFrom = [h \in Handles |-> FALSE]
    /\ everMoved = [h \in Handles |-> FALSE]
    /\ released = << >>
    /\ ops = NumHandles
    /\ got = NoAccess
    /\ pc = FirstStep(prog)
    /\ MainInit

NextAccess ==
    \/ \E h \in ClientHandles, how \in Accessors : Access(h, how)
    \/ \E d \in ClientHandles, s \in ClientHandles : MoveAssign(d, s)
    \/ \E h \in ClientHandles : Destroy(h)

SpecAccess == InitAccess /\ [][NextAccess]_vars

\* InputMethodText::obtainFrom as a function of what Xutf8LookupString
\* answers: the first call answers a1; a second call, made with the buffer
\* the function has then, answers a2.
InitLookup ==
    /\ prog = "client"
    /\ life = [h \in Handles |-> "unborn"]
    /\ impl = [h \in Handles |-> Nullopt]
    /\ ctor = [h \in Handles |-> NoCtor]
    /\ adopt = [h \in Handles |-> NoAdopt]
    /\ wasReset = [h \in Handles |-> FALSE]
    /\ movedFrom = [h \in Handles |-> FALSE]
    /\ everMoved = [h \in Handles |-> FALSE]
    /\ released = << >>
    /\ ops = 0
    /\ got = NoAccess
    /\ pc = FirstStep(prog)
    /\ xcalls = << >>
    /\ scope = << >>
    /\ raw = [display |-> NullValue, window |-> NullValue, wmDeleteMessage |-> NullValue]
    /\ threw = "none"
    /\ caught = 0
    /\ diag = << >>
    /\ exitCode = -1
    /\ events = << >>
    /\ shouldExit = FALSE
    /\ evlog = << >>
    /\ \E a1 \in LookupAnswers(FirstCap) :
         \E a2 \in (IF a1.status = "XBufferOverflow"
                     THEN LookupAnswers(SecondCap(a1)) ELSE {NoAnswer}) :
           lookup = [a1 |-> a1, a2 |-> a2, called |-> FALSE, out |-> NoResult]
    /\ modifiers = NoModifiers

NextLookup == ObtainFrom

SpecLookup == InitLookup /\ [][NextLookup]_vars

\* XModifiersStateToString as a function of its argument
InitModifiers ==
    /\ prog = "client"
    /\ life = [h \in Handles |-> "unborn"]
    /\ impl = [h \in Handles |-> Nullopt]
    /\ ctor = [h \in Handles |-> NoCtor]
    /\ adopt = [h \in Handles |-> NoAdopt]
    /\ wasReset = [h \in Handles |-> FALSE]
    /\ movedFrom = [h \in Handles |-> FALSE]
    /\ everMoved = [h \in Handles |-> FALSE]
    /\ released = << >>
    /\ ops = 0
    /\ got = NoAccess
    /\ pc = FirstStep(prog)
    /\ xcalls = << >>
    /\ scope = << >>
    /\ raw = [display |-> NullValue, window |-> NullValue, wmDeleteMessage |-> NullValue]
    /\ threw = "none"
    /\ caught = 0
    /\ diag = << >>
    /\ exitCode = -1
    /\ events = << >>
    /\ shouldExit = FALSE
    /\ evlog = << >>
    /\ lookup = NoLookup
    /\ \E state \in ModifierStates :
         modifiers = [state |-> state, called |-> FALSE, out |-> ""]

NextModifiers == ModifiersToString

SpecModifiers == InitModifiers /\ [][NextModifiers]_vars

\* ===================================================== checked properties
EntriesFor(a)     == {k \in DOMAIN released : released[k].act = a}
EntriesBy(h)      == {k \in DOMAIN released : released[k].by = h}
EntriesVia(h, v)  == {k \in EntriesBy(h) : released[k].via = v}
Owning(i)         == i.has /\ i.second # NoDeleter

\* C1: a handle constructed with a release action and never moved from, once
\* destroyed, has invoked that release action exactly once, itself, with the
\* value it was constructed around - in its destructor unless a move-assignment
\* overwrote it before - whether main() left the try block normally or by throw.
C1_DestroyInvokesReleaseOnce ==
    \A h \in Handles :
        (life[h] = "dead" /\ ctor[h].kind = "pair" /\ ~everMoved[h]) =>
            /\ Cardinality(EntriesFor(h)) = 1
            /\ \A k \in EntriesFor(h) :
                 /\ released[k].val = ctor[h].val
                 /\ released[k].by = h
                 /\ (adopt[h] = NoAdopt => released[k].via = "dtor")

C1_Witness ==
    /\ prog \in ImVersions /\ pc = "done" /\ threw = "XCreateIC failed"
    /\ life[hDisplay] = "dead" /\ ctor[hDisplay].kind = "pair"
    /\ Cardinality(EntriesFor(hDisplay)) = 1
    /\ life[hImContext] = "dead" /\ Cardinality(EntriesFor(hImContext)) = 1

\* C2: every release action supplied at a construction has been invoked at
\* most once in total, and no invocation was made by a handle that was in the
\* moved-from state (a reset handle has no optional left to invoke from).
C2_ReleaseAtMostOnce ==
    /\ \A a \in Handles : Cardinality(EntriesFor(a)) <= 1
    /\ \A k \in DOMAIN released : ~released[k].moved

\* C3: after h2 is move-constructed from h1, which held value v and release
\* action r, the destruction of h1 (still moved-from) invokes nothing, and once
\* both are destroyed r has been invoked exactly once, with v, by h2.
C3_MoveConstructTransfers ==
    \A h2 \in Handles :
        (ctor[h2].kind = "move" /\ ctor[h2].act # NoDeleter) =>
            LET h1 == ctor[h2].from
                r  == ctor[h2].act
            IN  /\ (life[h1] = "dead" /\ movedFrom[h1]) => EntriesVia(h1, "dtor") = {}
                /\ (life[h1] = "dead" /\ life[h2] = "dead" /\ ~everMoved[h2]) =>
                      /\ Cardinality(EntriesFor(r)) = 1
                      /\ \A k \in EntriesFor(r) :
                           /\ released[k].val = ctor[h2].val
                           /\ released[k].by = h2
                           /\ (adopt[h2] = NoAdopt => released[k].via = "dtor")

\* C4: a move-assignment of src (value b, action rB) into dst owning (value a,
\* action rA) invokes rA exactly once, with a, by dst, in the assignment, and
\* leaves dst holding (b, rB); src destroyed while moved-from invokes nothing;
\* dst destroyed afterwards invokes rB exactly once with b; rB is not invoked
\* while dst still holds it.
C4_MoveAssignReleasesOld ==
    \A d \in Handles :
        adopt[d] # NoAdopt =>
            LET s == adopt[d].from
                A == adopt[d]
            IN  /\ A.prevAct # NoDeleter =>
                      /\ Cardinality(EntriesFor(A.prevAct)) = 1
                      /\ \A k \in EntriesFor(A.prevAct) :
                           /\ released[k].val = A.prevVal
                           /\ released[k].by = d
                           /\ released[k].via = "assign"
                /\ (life[s] = "dead" /\ movedFrom[s]) => EntriesVia(s, "dtor") = {}
                /\ (life[d] = "live" /\ ~movedFrom[d]) =>
                      /\ impl[d] = InPlace(A.val, A.act)
                      /\ A.act # NoDeleter => EntriesFor(A.act) = {}
                /\ (life[d] = "dead" /\ ~movedFrom[d] /\ A.act # NoDeleter) =>
                      /\ Cardinality(EntriesFor(A.act)) = 1
                      /\ \A k \in EntriesFor(A.act) :
                           /\ released[k].val = A.val
                           /\ released[k].by = d
                           /\ released[k].via = "dtor"

Holders(a) == {h \in Handles : life[h] = "live" /\ impl[h].has /\ impl[h].second = a}
LastMove(h) == IF adopt[h] # NoAdopt THEN [val |-> adopt[h].val, act |-> adopt[h].act]
               ELSE [val |-> ctor[h].val, act |-> ctor[h].act]

\* C5: at most one live handle holds a given release action as callable; a
\* handle in the moved-from state holds none (its destruction does nothing),
\* and the destination of a move holds exactly the value and release action
\* the source held.
C5_ExclusiveOwnership ==
    /\ \A a \in Handles : Cardinality(Holders(a)) <= 1
    /\ \A h \in Handles :
         (life[h] = "live" /\ movedFrom[h]) => ~Owning(impl[h])
    /\ \A h \in Handles :
         (life[h] = "live" /\ ~movedFrom[h] /\ (adopt[h] # NoAdopt \/ ctor[h].kind = "move")) =>
             impl[h] = InPlace(LastMove(h).val, LastMove(h).act)

C6_AtMostOnceByHandle == \A h \in Handles : Cardinality(EntriesBy(h)) <= 1

C6_SecondResetIsNoOp ==
    \A h \in ClientHandles :
        (wasReset[h] /\ (Reset(h) \/ Destroy(h))) =>
            /\ released' = released
            /\ impl'[h] = impl[h]

\* C6: reset() is idempotent: over any sequence of resets and destructions a
\* handle invokes its release action at most once, and a reset or destruction
\* of a handle already reset invokes nothing and leaves its state as it was.
C6_ResetIdempotent == []C6_AtMostOnceByHandle /\ [][C6_SecondResetIsNoOp]_vars

C6_Witness ==
    \E h \in ClientHandles :
        /\ wasReset[h] /\ life[h] = "dead" /\ ctor[h].kind = "pair"
        /\ Cardinality(EntriesVia(h, "reset")) = 1
        /\ Cardinality(EntriesBy(h)) = 1

\* ------------------------------------------------------- main(): claims
ReleaseFn(h) ==
    CASE h = hDisplay     -> "XCloseDisplay"
      [] h = hWindow      -> "XDestroyWindow"
      [] h = hInputMethod -> "XCloseIM"
      [] h = hStyles      -> "XFree(styles)"
      [] h = hPreedit     -> "XFree(list)"
      [] h = hImContext   -> "XDestroyIC"
      [] OTHER            -> "none"
ReleaseFns == {ReleaseFn(h) : h \in MainHandles \ {hDisplayWindow}}

\* the call whose failure raised the error in flight
FailedFn ==
    CASE threw = "std::setlocale failed"                   -> "setlocale"
      [] threw = "X11 does not support the current locale" -> "XSupportsLocale"
      [] threw = "XSetLocaleModifiers failed"              -> "XSetLocaleModifiers"
      [] threw = "XOpenDisplay failed"                     -> "XOpenDisplay"
      [] threw = "XSetWMProtocols failed"                  -> "XSetWMProtocols"
      [] threw = "XOpenIM failed"                          -> "XOpenIM"
      [] threw = "XGetIMValues failed"                     -> "XGetIMValues"
      [] threw = "XGetIMValues didn't return values for XNQueryInputStyle"
                                                           -> "XGetIMValues"
      [] threw = "XVaCreateNestedList failed"              -> "XVaCreateNestedList"
      [] threw = "XCreateIC failed"                        -> "XCreateIC"
      [] threw = "Xutf8LookupString: unknown status"       -> "Xutf8LookupString"
      [] OTHER                                             -> "none"

CallsOf(fn)   == {k \in DOMAIN xcalls : xcalls[k].fn = fn}
OtherCalls    == {k \in DOMAIN xcalls : xcalls[k].fn \notin ReleaseFns}
LastOtherCall == CHOOSE k \in OtherCalls : \A j \in OtherCalls : j <= k
LastArg(c)    == c.args[Len(c.args)]
SetupFns      == {"setlocale", "XSupportsLocale", "XSetLocaleModifiers", "XOpenDisplay",
                  "XCreateSimpleWindow", "XSetWMProtocols", "XOpenIM", "XGetIMValues",
                  "XVaCreateNestedList", "XCreateIC"}

\* C7: when a step of main() has thrown (a setup step, or the lookup inside
\* the loop), then by the time main() has returned every handle is destroyed,
\* every resource acquired before the failure (a non-null value wrapped with a
\* release action) has had its release call made exactly once, with that
\* value, after the call that failed, nothing else has been released, and the
\* failed call was the last call made before the releases and no setup call
\* was made twice.
C7_UnwindReleasesAcquired ==
    (prog \in RaiiVersions /\ pc = "done" /\ threw # "none") =>
        /\ \A h \in MainHandles : life[h] # "live"
        /\ \A h \in MainHandles \ {hDisplayWindow} :
             IF ctor[h].kind = "pair" /\ ctor[h].val # NullValue
             THEN /\ Cardinality(CallsOf(ReleaseFn(h))) = 1
                  /\ \A k \in CallsOf(ReleaseFn(h)) :
                       /\ LastArg(xcalls[k]) = ctor[h].val
                       /\ k > LastOtherCall
             ELSE CallsOf(ReleaseFn(h)) = {}
        /\ xcalls[LastOtherCall].fn = FailedFn
        /\ \A fn \in SetupFns : Cardinality(CallsOf(fn)) <= 1

C7_Witness ==
    /\ prog = "imstyles" /\ pc = "done"
    /\ threw = "Xutf8LookupString: unknown status"
    /\ \A fn \in ReleaseFns : Cardinality(CallsOf(fn)) = 1

ReleaseOrder == << "XDestroyIC", "XFree(list)", "XFree(styles)", "XCloseIM",
                   "XDestroyWindow", "XCloseDisplay" >>
IsReleaseCall(c) == c.fn \in ReleaseFns
FnOf(cs) == [k \in DOMAIN cs |-> cs[k].fn]
HeldResource(fn) ==
    \E h \in MainHandles : ReleaseFn(h) = fn /\ ctor[h].kind = "pair" /\ ctor[h].val # NullValue

C9_ExitCode ==
    /\ pc # "done" => exitCode = -1
    /\ pc = "done" =>
         /\ exitCode \in {0, 1}
         /\ shouldExit => exitCode = 0
         /\ (threw # "none") <=> (exitCode = 1)
         /\ threw # "none" => (diag = << threw >> /\ caught = 1)

C9_Witness ==
    /\ prog = "raii" /\ pc = "done" /\ exitCode = 0 /\ shouldExit
    /\ Len(events) = MaxEvents /\ events[Len(events)].type = "ClientMessage"

CheckedFns == {"setlocale", "XSetLocaleModifiers", "XOpenDisplay", "XOpenIM",
               "XVaCreateNestedList", "XCreateIC", "XSupportsLocale", "XSetWMProtocols"}
SentinelReturned ==
    \E k \in DOMAIN xcalls : xcalls[k].fn \in CheckedFns /\ xcalls[k].ret = NullValue

\* C10: whenever a checked call has returned its failure sentinel, the
\* failure is handled once by the top-level handler, a description is on the
\* diagnostic stream, and main() returns a non-zero exit code.
C10_SentinelIsFatal ==
    (pc = "done" /\ SentinelReturned) =>
        /\ caught = 1
        /\ diag # << >>
        /\ exitCode # 0

\* ----------------------------------------------------- the event loop: claims
LastEvent == events[Len(events)]

\* C11: once the loop has fetched an event, control is past the loop only when
\* an error is in flight or the exit flag is set and the last event fetched is
\* an unfiltered ClientMessage carrying the WM_DELETE_WINDOW atom; while the
\* loop runs the flag is clear, whatever events and however many were fetched.
C11_LoopLeftOnlyOnCloseOrError ==
    events # << >> =>
        /\ pc = "loop" => (~shouldExit /\ threw = "none")
        /\ pc # "loop" =>
              \/ threw # "none"
              \/ /\ shouldExit
                 /\ LastEvent.type = "ClientMessage"
                 /\ LastEvent.data0 = raw.wmDeleteMessage
                 /\ ~EventWasFiltered(LastEvent)
        /\ \A k \in 1..(Len(events) - 1) :
              ~(/\ events[k].type = "ClientMessage"
                /\ events[k].data0 = raw.wmDeleteMessage
                /\ ~EventWasFiltered(events[k]))

C11_Witness ==
    /\ prog = "im" /\ pc = "done" /\ threw = "none" /\ shouldExit
    /\ Len(events) = MaxEvents
    /\ events[1].type = "ClientMessage" /\ events[1].data0 # raw.wmDeleteMessage

\* C12: in the input-method versions every event XNextEvent has returned is in
\* the log, with its type and whether it was filtered, in the order fetched
\* and before the next event is fetched.
C12_LogsEveryEvent ==
    prog \in ImVersions =>
        /\ Len(evlog) = Len(events)
        /\ \A k \in DOMAIN events :
              /\ evlog[k].type = events[k].type
              /\ evlog[k].filtered = events[k].filtered

\* the server has delivered an unfiltered window-close ClientMessage
CloseDelivered ==
    \E k \in DOMAIN events :
        /\ events[k].type = "ClientMessage"
        /\ events[k].data0 = raw.wmDeleteMessage
        /\ ~EventWasFiltered(events[k])

\* main() has returned 0 with every resource it acquired released once
TerminatedClean ==
    /\ pc = "done" /\ exitCode = 0 /\ caught = 0
    /\ \A h \in MainHandles : life[h] # "live"
    /\ IF prog \in RaiiVersions
       THEN \A h \in MainHandles \ {hDisplayWindow} :
                ctor[h].kind = "pair" => Cardinality(CallsOf(ReleaseFn(h))) = 1
       ELSE /\ Cardinality(CallsOf("XDestroyWindow")) = 1
            /\ Cardinality(CallsOf("XCloseDisplay")) = 1

\* C13: once the server has delivered an unfiltered window-close message
\* (which it can only after every setup step succeeded), main() eventually
\* leaves the loop, releases every resource it acquired and returns 0.
C13_CloseLeadsToCleanExit == CloseDelivered ~> TerminatedClean

C13_Witness ==
    /\ prog = "raii" /\ CloseDelivered /\ TerminatedClean
    /\ Len(events) = 1
    /\ Cardinality(CallsOf("XDestroyWindow")) = 1

\* ------------------------------------------------ the states of a handle
\* released as the specification names it: moved from, or reset
ReleasedState(h) == movedFrom[h] \/ ~impl[h].has

C15_NoDeleterNoAction ==
    [][\A h \in Handles :
          (/\ life[h] = "live" /\ ~movedFrom[h]
           /\ impl[h].has /\ impl[h].second = NoDeleter
           /\ \/ Destroy(h)
              \/ \E s \in ClientHandles \ {h} : MoveAssign(h, s)
              \/ (ScopeExit /\ life'[h] = "dead"))
          => (released' = released /\ xcalls' = xcalls)]_vars

C15_Witness ==
    \E h1 \in ClientHandles, h2 \in ClientHandles :
        /\ ctor[h1].kind = "single" /\ ctor[h2].kind = "move" /\ ctor[h2].from = h1
        /\ adopt[h1] # NoAdopt /\ adopt[h1].from = h2 /\ adopt[h1].prevAct = NoDeleter
        /\ life[h1] = "dead" /\ life[h2] = "dead"
        /\ released = << >>

\* C16: an access to a live handle that has not been moved from returns the
\* value the handle was constructed around or adopted by its last move (the
\* conversion operator returns it converted to R), and changes nothing of any
\* handle: neither value, release action, engagement nor lifetime, and adds no
\* invocation and no external call.
C16_AccessHasNoEffect ==
    [][\A h \in ClientHandles, how \in Accessors :
          (life[h] = "live" /\ ~movedFrom[h] /\ impl[h].has /\ Access(h, how)) =>
              /\ got'.val = IF how = "operator R" THEN CastR(LastMove(h).val)
                            ELSE LastMove(h).val
              /\ impl' = impl /\ life' = life /\ movedFrom' = movedFrom
              /\ released' = released /\ xcalls' = xcalls]_vars

C16_Witness ==
    \E h \in ClientHandles :
        /\ got = [by |-> h, how |-> "getResource", val |-> MaxValue]
        /\ life[h] = "live" /\ ~movedFrom[h] /\ Owning(impl[h])
        /\ adopt[h] # NoAdopt /\ adopt[h].val = MaxValue /\ ctor[h].val # MaxValue

\* C17: a handle constructed around the failure sentinel with a release
\* action is engaged and holds the sentinel and the action like any other
\* (so the caller's check reads the sentinel); once destroyed, never having
\* been moved from, it has invoked the action exactly once, with the sentinel.
\* In main(), a null Display* is wrapped before it is tested: the handle
\* exists when "XOpenDisplay failed" is thrown, and its deleter runs once with
\* the null pointer (and calls nothing).
C17_SentinelHandleIsOrdinary ==
    /\ \A h \in Handles :
          (ctor[h].kind = "pair" /\ ctor[h].val = NullValue /\ ~everMoved[h]) =>
              /\ (life[h] = "live" /\ adopt[h] = NoAdopt) =>
                    /\ impl[h] = [has |-> TRUE, first |-> NullValue, second |-> ctor[h].act]
                    /\ getResource(impl[h]) = NullValue
              /\ life[h] = "dead" =>
                    /\ Cardinality(EntriesFor(ctor[h].act)) = 1
                    /\ \A k \in EntriesFor(ctor[h].act) :
                          released[k].val = NullValue /\ released[k].by = h
    /\ (prog \in RaiiVersions /\ threw = "XOpenDisplay failed") =>
          /\ life[hDisplay] # "unborn"
          /\ ctor[hDisplay] = [kind |-> "pair", val |-> NullValue, act |-> hDisplay,
                               from |-> hDisplay]
          /\ pc = "done" =>
                /\ Len(released) = 1
                /\ released[1].act = hDisplay /\ released[1].val = NullValue
                /\ CallsOf("XCloseDisplay") = {}

C17_Witness ==
    /\ prog = "imstyles" /\ pc = "done" /\ threw = "XOpenDisplay failed"
    /\ life[hDisplay] = "dead" /\ ctor[hDisplay].val = NullValue
    /\ Len(released) = 1 /\ released[1].val = NullValue

\* C18: in the input-method versions, an iteration whose XFilterEvent answered
\* true leaves shouldExit as it was, even for a ClientMessage that carries the
\* WM_DELETE_WINDOW atom, makes no Xutf8LookupString call, logs nothing from a
\* case of the switch, raises nothing, and leaves the program in the loop.
C18_FilteredEventIsDiscarded ==
    [][(/\ prog \in ImVersions
        /\ Len(events') = Len(events) + 1
        /\ events'[Len(events')].filtered)
       => /\ shouldExit' = shouldExit
          /\ threw' = threw
          /\ pc' = "loop"
          /\ CallsOf("Xutf8LookupString")' = CallsOf("Xutf8LookupString")
          /\ xcalls'[Len(xcalls')].fn = "XFilterEvent"
          /\ \A k \in (Len(evlog) + 1)..Len(evlog') : evlog'[k].at # "switch"]_vars

C18_Witness ==
    /\ prog \in ImVersions /\ Len(events) = 2
    /\ events[1].type = "ClientMessage" /\ events[1].filtered
    /\ events[1].data0 = raw.wmDeleteMessage
    /\ ~events[2].filtered
    /\ ~shouldExit /\ pc = "loop"

\* the setup calls each version of main() makes before it maps the window
SetupCalls(p) ==
    IF p = "openclose" THEN {"XOpenDisplay"}
    ELSE {"XOpenDisplay", "XCreateSimpleWindow", "XSetWMProtocols"}
         \cup (IF p \in ImVersions
               THEN {"setlocale", "XSupportsLocale", "XSetLocaleModifiers", "XOpenIM",
                     "XVaCreateNestedList", "XCreateIC"}
               ELSE {})
         \cup (IF p = "imstyles" THEN {"XGetIMValues"} ELSE {})

\* a setup call answered with what the code tests for: a null pointer, a zero
\* status, a false Bool; XGetIMValues with the name of an argument it could not
\* obtain
FailedCall(c) ==
    \/ c.fn \in SetupFns \ {"XCreateSimpleWindow", "XGetIMValues"} /\ c.ret = NullValue
    \/ c.fn = "XGetIMValues" /\ c.ret # NullValue
SetupFailed ==
    \/ \E k \in DOMAIN xcalls : FailedCall(xcalls[k])
    \/ threw = "XGetIMValues didn't return values for XNQueryInputStyle"

\* C19: when a next-event call has been made, no setup call has failed, every
\* setup call of the version has been made and the window was mapped, all
\* before the first next-event call; once a setup call has failed, in every
\* later state no XMapWindow call and no XNextEvent call has been made.
C19_LoopOnlyAfterSetup ==
    /\ SetupFailed =>
          /\ CallsOf("XMapWindow") = {}
          /\ CallsOf("XNextEvent") = {}
          /\ events = << >>
    /\ CallsOf("XNextEvent") # {} =>
          /\ ~SetupFailed
          /\ \A n \in CallsOf("XNextEvent") :
                /\ \E m \in CallsOf("XMapWindow") : m < n
                /\ \A fn \in SetupCalls(prog) :
                      \E k \in CallsOf(fn) : k < n /\ ~FailedCall(xcalls[k])

C19_Witness ==
    /\ prog = "imstyles" /\ pc = "loop" /\ Len(events) = 1
    /\ Cardinality(CallsOf("XNextEvent")) = 1
    /\ \A fn \in SetupCalls(prog) : Cardinality(CallsOf(fn)) = 1

\* the call of Xutf8LookupString that obtainFrom made last
LastLookup == lookup.out.calls[Len(lookup.out.calls)]

\* C20: after obtainFrom, by the status of the last lookup call it made:
\* XLookupNone, it returned neither key symbol nor text; XLookupChars, the
\* text only; XLookupKeySym, the key symbol of that call only; XLookupBoth,
\* both; any other status, it raised the error.  A returned text has the
\* length the last lookup call reported.
C20_ObtainFromResult ==
    lookup.called =>
        LET st  == LastLookup.ans.status
            out == lookup.out
        IN  /\ st = "XLookupNone" =>
                  ~out.threw /\ out.keySym = NoKeySym /\ out.text = NoText
            /\ st = "XLookupChars" =>
                  ~out.threw /\ out.keySym = NoKeySym /\ out.text = LastLookup.ans.len
            /\ st = "XLookupKeySym" =>
                  ~out.threw /\ out.keySym = LastLookup.ans.keySym /\ out.text = NoText
            /\ st = "XLookupBoth" =>
                  /\ ~out.threw /\ out.keySym = LastLookup.ans.keySym
                  /\ out.text = LastLookup.ans.len
            /\ st \notin Returning =>
                  out.threw /\ out.keySym = NoKeySym /\ out.text = NoText
            /\ out.keySym # NoKeySym => out.keySym \in KeySyms

C20_Witness ==
    /\ lookup.called /\ Len(lookup.out.calls) = 2
    /\ lookup.a1.len = BufferCap + 1
    /\ LastLookup.ans.status = "XLookupBoth"
    /\ lookup.out.text = BufferCap + 1 /\ lookup.out.keySym \in KeySyms

\* C21: in the version that queries the input styles, a query that named a
\* failed argument, or named none and left the list null, has raised the error
\* and no styles handle exists; after any other query the styles handle exists,
\* constructed around the non-null list with the action that frees it; the
\* list is not freed before control leaves the try block, and when main() has
\* returned it has been freed exactly once, by that handle.
C21_StylesQueriedCheckedAndFreedOnce ==
    \A k \in CallsOf("XGetIMValues") :
        IF xcalls[k].ret # NullValue
        THEN threw = "XGetIMValues failed" /\ life[hStyles] = "unborn"
        ELSE IF life[hStyles] = "unborn"
        THEN threw = "XGetIMValues didn't return values for XNQueryInputStyle"
        ELSE /\ ctor[hStyles] = [kind |-> "pair", val |-> ctor[hStyles].val,
                                 act |-> hStyles, from |-> hStyles]
             /\ ctor[hStyles].val # NullValue
             /\ life[hStyles] = "live" =>
                   /\ impl[hStyles] = InPlace(ctor[hStyles].val, hStyles)
                   /\ CallsOf("XFree(styles)") = {}
             /\ CallsOf("XFree(styles)") # {} => pc \in {"unwind", "done"}
             /\ pc = "done" =>
                   /\ Cardinality(CallsOf("XFree(styles)")) = 1
                   /\ \A j \in CallsOf("XFree(styles)") :
                         j > k /\ xcalls[j].args = <<ctor[hStyles].val>>
                   /\ Cardinality(EntriesFor(hStyles)) = 1
                   /\ \A e \in EntriesFor(hStyles) : released[e].by = hStyles

C21_Witness ==
    /\ prog = "imstyles" /\ pc = "done" /\ threw = "none" /\ shouldExit
    /\ Cardinality(CallsOf("XGetIMValues")) = 1
    /\ Cardinality(CallsOf("XFree(styles)")) = 1
    /\ life[hStyles] = "dead"

\* C22: obtainFrom makes one lookup call or two; the first is given a buffer
\* of 128 bytes; it makes the second exactly when the first answered
\* XBufferOverflow, and gives it a buffer of the length the first reported;
\* when the second answers XBufferOverflow too it makes no other call and
\* raises the error.
C22_AtMostTwoLookups ==
    lookup.called =>
        LET calls == lookup.out.calls
        IN  /\ Len(calls) \in {1, 2}
            /\ calls[1] = [cap |-> 128, ans |-> lookup.a1]
            /\ Len(calls) = 2 <=> lookup.a1.status = "XBufferOverflow"
            /\ Len(calls) = 2 =>
                  /\ calls[2] = [cap |-> lookup.a1.len, ans |-> lookup.a2]
                  /\ lookup.a2.status = "XBufferOverflow" => lookup.out.threw

C22_Witness ==
    /\ lookup.called
    /\ lookup.a1.status = "XBufferOverflow" /\ lookup.a2.status = "XBufferOverflow"
    /\ lookup.a2.len > lookup.a1.len
    /\ Len(lookup.out.calls) = 2 /\ lookup.out.threw

\* the resources (named by their handles) each Xlib call is passed
Takes(fn) ==
    CASE fn \in {"DefaultRootWindow", "XCreateSimpleWindow", "XInternAtom", "XOpenIM",
                 "XNextEvent", "XCloseDisplay"}                   -> {hDisplay}
      [] fn \in {"XSetWMProtocols", "XSelectInput", "XMapWindow", "XDestroyWindow"}
                                                                  -> {hDisplay, hWindow}
      [] fn \in {"XGetIMValues", "XCloseIM"}                      -> {hInputMethod}
      [] fn = "XCreateIC"                                         -> {hInputMethod, hWindow}
      [] fn \in {"XSetICFocus", "Xutf8LookupString", "XDestroyIC"} -> {hImContext}
      [] OTHER                                                    -> {}
Connected == {hDisplay, hWindow, hInputMethod, hImContext}

\* in the order of the calls made so far: nothing is passed a resource after
\* the call that released it; the window, the input method and the input
\* context are released before the display is closed, the input context
\* before the input method
UsedBeforeReleased ==
    /\ \A h \in Connected : \A r \in CallsOf(ReleaseFn(h)) :
          \A k \in DOMAIN xcalls : k > r => h \notin Takes(xcalls[k].fn)
    /\ \A c \in CallsOf("XCloseDisplay") :
          \A k \in CallsOf("XDestroyWindow") \cup CallsOf("XCloseIM") \cup CallsOf("XDestroyIC") :
             k < c
    /\ \A c \in CallsOf("XCloseIM") : \A k \in CallsOf("XDestroyIC") : k < c

\* C23: every step of every version of main() makes its Xlib calls on
\* resources whose release action has not run before the step (whether or
\* not that action made a call), and the calls made up to any point are in an
\* order in which no resource is used after the call that released it,
\* XDestroyWindow, XCloseIM and XDestroyIC precede XCloseDisplay, and
\* XDestroyIC precedes XCloseIM.
C23_NoUseAfterRelease ==
    [][/\ \A k \in (Len(xcalls) + 1)..Len(xcalls') :
            \A h \in Takes(xcalls'[k].fn) :
               \A e \in DOMAIN released : released[e].act # h
       /\ UsedBeforeReleased']_vars

C23_Witness ==
    /\ prog = "imstyles" /\ pc = "done"
    /\ threw = "Xutf8LookupString: unknown status"
    /\ \A h \in Connected : Cardinality(CallsOf(ReleaseFn(h))) = 1
    /\ xcalls[Len(xcalls)].fn = "XCloseDisplay"

\* what an accessor called on handle h returns or raises
Stored(h) == getResource(impl[h])

\* C24: after every operation each live handle holds a stored value, so an
\* access to it returns a value and does not raise; a move-construction or a
\* move-assignment from another handle leaves the source live, holding the
\* value it held before, and the destination holding that value too.
C24_LiveHandlesStayEngaged ==
    [][/\ \A h \in Handles :
            life'[h] = "live" => impl'[h].has /\ Stored(h)' \in Values
       /\ \A d \in ClientHandles : \A s \in ClientHandles \ {d} :
            (MoveConstruct(d, s) \/ MoveAssign(d, s)) =>
                /\ life'[s] = "live" /\ life'[d] = "live"
                /\ Stored(s)' = Stored(s)
                /\ Stored(d)' = Stored(s)]_vars

C24_Witness ==
    \E d \in ClientHandles, s \in ClientHandles :
        /\ d # s /\ life[s] = "live" /\ life[d] = "live"
        /\ movedFrom[s] /\ adopt[d].from = s
        /\ Stored(s) = MaxValue /\ Stored(d) = MaxValue
        /\ adopt[d].prevVal = NullValue

\* C25: a move-assignment of a handle to itself leaves every handle, the
\* invocation log and the external calls as they were; and the destruction of
\* a handle that holds a value and a release action, after self-assignments
\* as at any other time, adds exactly one invocation of that action, with
\* that value, by that handle.
C25_SelfAssignChangesNothing ==
    [][\A h \in ClientHandles :
         /\ MoveAssign(h, h) =>
               /\ impl' = impl /\ life' = life /\ ctor' = ctor /\ adopt' = adopt
               /\ movedFrom' = movedFrom /\ everMoved' = everMoved
               /\ wasReset' = wasReset
               /\ released' = released /\ xcalls' = xcalls
         /\ (Destroy(h) /\ impl[h].has /\ impl[h].second # NoDeleter) =>
               /\ Len(released') = Len(released) + 1
               /\ released'[Len(released')].act = impl[h].second
               /\ released'[Len(released')].val = impl[h].first
               /\ released'[Len(released')].by = h]_vars

\* one handle was constructed, one operation was performed on it while no
\* other handle existed, which can only be its assignment to itself, and it
\* was destroyed
C25_Witness ==
    /\ prog = "client" /\ ops = 3
    /\ life[1] = "dead" /\ \A g \in ClientHandles \ {1} : life[g] = "unborn"
    /\ ctor[1] = [kind |-> "pair", val |-> MaxValue, act |-> 1, from |-> 1]
    /\ Len(released) = 1
    /\ released[1].act = 1 /\ released[1].val = MaxValue /\ released[1].via = "dtor"

\* the handles whose release action tests its argument for null
NullChecked == {hDisplay, hInputMethod, hStyles, hPreedit, hImContext}

\* C26: no XCloseDisplay, XCloseIM, XDestroyIC or XFree call made so far was
\* passed a null argument; each release action that has run on a null
\* display, input method, input context, nested list or styles list is in
\* the log of invocations and has made no call; and each of these actions,
\* applied to null, makes no call.
C26_NoReleaseCallOnNull ==
    /\ \A h \in NullChecked : \A k \in CallsOf(ReleaseFn(h)) :
          xcalls[k].args # << >> /\ \A a \in DOMAIN xcalls[k].args :
                                      xcalls[k].args[a] # NullValue
    /\ prog \in RaiiVersions =>
          /\ \A e \in DOMAIN released :
                (released[e].act \in NullChecked /\ released[e].val = NullValue) =>
                    CallsOf(ReleaseFn(released[e].act)) = {}
          /\ \A h \in NullChecked : DeleterBody(h, NullValue) = << >>

C26_Witness ==
    /\ prog = "imstyles" /\ pc = "done" /\ threw = "XCreateIC failed"
    /\ \E e \in DOMAIN released :
          released[e].act = hImContext /\ released[e].val = NullValue
    /\ CallsOf("XDestroyIC") = {}
    /\ \A h \in NullChecked \ {hImContext} : Cardinality(CallsOf(ReleaseFn(h))) = 1

\* C27: an iteration starts with the exit flag clear (so no event is fetched
\* once it is set) and ends with it set exactly when the event it fetched is
\* a ClientMessage that reached the switch and whose data.l[0] is the
\* WM_DELETE_WINDOW atom, whatever its message_type and format; after a
\* ClientMessage with another data.l[0] the program is still in the loop; no
\* step clears the flag.
C27_ExitFlagOnDeleteAtomOnly ==
    [][/\ shouldExit => shouldExit'
       /\ Len(events') = Len(events) + 1 =>
             LET ev == events'[Len(events')]
                 dispatched == ~(prog \in ImVersions /\ ev.filtered)
             IN  /\ ~shouldExit
                 /\ shouldExit' = (/\ dispatched
                                   /\ ev.type = "ClientMessage"
                                   /\ ev.data0 = raw.wmDeleteMessage)
                 /\ (ev.type = "ClientMessage" /\ ev.data0 # raw.wmDeleteMessage) =>
                       ~shouldExit' /\ pc' = "loop" /\ threw' = "none"]_vars

C27_Witness ==
    /\ Len(events) = 2 /\ shouldExit /\ pc # "loop"
    /\ events[1].type = "ClientMessage" /\ events[1].data0 # raw.wmDeleteMessage
    /\ events[1].messageType = "WM_PROTOCOLS" /\ ~events[1].filtered
    /\ events[2].type = "ClientMessage" /\ events[2].data0 = raw.wmDeleteMessage
    /\ events[2].messageType = "other" /\ events[2].format = 8

\* the release calls a run has made, in order, and the release calls that
\* the results of XOpenDisplay and XCreateSimpleWindow alone determine
ReleaseCalls == SelectSeq(xcalls, LAMBDA c : c.fn \in {"XDestroyWindow", "XCloseDisplay"})
ResultOf(fn) == xcalls[CHOOSE k \in CallsOf(fn) : TRUE].ret
SameReleaseCalls ==
    IF ResultOf("XOpenDisplay") = NullValue
    THEN << >>
    ELSE << XCall("XDestroyWindow",
                  <<ResultOf("XOpenDisplay"), ResultOf("XCreateSimpleWindow")>>, NoRet),
            XCall("XCloseDisplay", <<ResultOf("XOpenDisplay")>>, NoRet) >>

\* C28: when the manual-cleanup version or the first RAII version has
\* returned, the release calls it made are the same function of the results
\* of the external service in both: none when XOpenDisplay returned null;
\* otherwise, on a clean close and on an XSetWMProtocols failure alike, one
\* XDestroyWindow of the window on the display followed by one XCloseDisplay
\* of the display.
C28_SameReleaseCallsInBothVersions ==
    (prog \in {"manual", "raii"} /\ pc = "done") =>
        /\ Cardinality(CallsOf("XOpenDisplay")) = 1
        /\ ReleaseCalls = SameReleaseCalls
        /\ ResultOf("XOpenDisplay") # NullValue =>
              \/ shouldExit
              \/ \E k \in CallsOf("XSetWMProtocols") : xcalls[k].ret = NullValue

C28_Witness ==
    /\ prog = "manual" /\ pc = "done"
    /\ \E k \in CallsOf("XSetWMProtocols") : xcalls[k].ret = NullValue
    /\ Len(ReleaseCalls) = 2
    /\ ReleaseCalls[1].fn = "XDestroyWindow" /\ ReleaseCalls[2].fn = "XCloseDisplay"

\* the names, in the fixed order, of the masks whose bit is set in state; the
\* bit of a mask is read by division, bit by bit
BitSet(state, mask) == (state \div mask) % 2 = 1
NamesSet(state) ==
    LET on == SelectSeq(Masks, LAMBDA m : BitSet(state, m.mask))
    IN  [k \in 1..Len(on) |-> on[k].name]
RECURSIVE Joined(_)
Joined(names) ==
    IF names = << >> THEN ""
    ELSE IF Len(names) = 1 THEN names[1]
    ELSE names[1] \o ", " \o Joined(Tail(names))

\* C29: XModifiersStateToString returns "[", the names of exactly the masks
\* whose bit is set, in the order Button1..Button5, Shift, Lock, Control,
\* Mod1..Mod5, with ", " between two names and nowhere else, and "]"; "[]" when
\* none of the 13 bits is set; the bits above them do not change the result.
C29_ModifierNamesInOrder ==
    modifiers.called =>
        /\ modifiers.out = "[" \o Joined(NamesSet(modifiers.state)) \o "]"
        /\ modifiers.state % Pow2(13) = 0 => modifiers.out = "[]"
        /\ modifiers.out = XModifiersStateToString(modifiers.state % Pow2(13))
        /\ Len(Masks) = 13
        /\ [k \in 1..13 |-> Masks[k].name] =
              << "Button1", "Button2", "Button3", "Button4", "Button5", "Shift", "Lock",
                 "Control", "Mod1", "Mod2", "Mod3", "Mod4", "Mod5" >>

C29_Witness ==
    /\ modifiers.called
    /\ modifiers.state = 256 + 1 + 4 + Pow2(13)
    /\ modifiers.out = "[Button1, Shift, Control]"

====
